---- MODULE Spec2Model ----
(***************************************************************************)
(* Mobility and SIR transmission of agents over a graph: a state machine   *)
(* of run_experiment (src/src/simu.py) with its steps step_mobility,       *)
(* step_transmission and compute_statuses_sums.                            *)
(*                                                                         *)
(* Vertices and agent ids are 0-based as in the source.  Python lists are  *)
(* sequences.  A probability p is kept as the numerator of p = p2/2, and   *)
(* an outcome of np.random.rand() as the numerator d of d/RandSteps, so    *)
(* that "rand() <= p" is 2*d <= p2*RandSteps.                              *)
(***************************************************************************)
EXTENDS Integers, Sequences, FiniteSets, TLC

VARIABLES
    cfg,              \* the configuration of the experiment
    g,                \* the graph: vcount, neighbors, gradient
    status,           \* status[a]: SIR state of agent a
    nparticles,       \* nparticles[v]: number of agents drawn for vertex v
    particles,        \* particles[v]: list of the agent ids at vertex v
    ntransmissions,   \* cumulative transmissions per vertex
    statuscountsum,   \* pre-allocated rows of global <<S, I, R>> counts
    nparticlesstds,   \* pre-allocated spread of the occupancy per epoch
    written,          \* the files and directories written so far
    ep, lastepoch,    \* loop variable of run_experiment and its last value
    pc,               \* position in run_experiment
    statuses_fixed,   \* step_transmission's copy of status on entry
    newtransmissions, \* step_transmission's returned per-vertex counts
    newrecovered,     \* numnewrecovered of each vertex in the last call
    summary,          \* the rows exported to sir.csv
    rngusers          \* the experiments that drew from the process's np.random

vars == <<cfg, g, status, nparticles, particles, ntransmissions, statuscountsum,
          nparticlesstds, written, ep, lastepoch, pc, statuses_fixed, newtransmissions,
          newrecovered, summary, rngusers>>

---------------------------------------------------------------------------
(* Program constants *)
SUSCEPTIBLE == 0
INFECTED == 1
RECOVERED == 2
\* autoloop_prob = 0.5, as the numerator over 2
autoloop_prob2 == 1
\* MAX = sys.maxsize: the loop bound when nepochs is not positive.  Any value
\* above MAXITERS behaves alike, the arrays having MAXITERS rows.
MAX == 1000000

(* Bounds *)
\* rows of the pre-allocated arrays (100000 in the source)
MAXITERS == 2
\* np.random.rand() yields d/RandSteps, d in 0..RandSteps-1 (0.0 included)
RandSteps == 4
\* the random weights of the initial distribution are w/(MaxWeight+1)
MaxWeight == 3
\* number of agents N = s0 + i0 + r0
MaxAgents == 2
\* gradient weights (density values) are 0..MaxGrad
MaxGrad == 1
\* number of agents of the runs on the one-vertex lattice
MaxAgentsIsolated == 3
\* cfg['avgdegree'] of the random graphs is in -MaxAvgDegree..MaxAvgDegree
MaxAvgDegree == 4
\* number of experiments main runs in one process
MaxExperiments == 2

RandVals == 0..(RandSteps - 1)
Prob2 == {0, 1, 2}
NVerticesChoices == {4}
\* the values of nvertices of all the specifications below
NVerticesModelled == {1, 2, 4}
\* the values of cfg['randomseed']
Seeds == {0}
NEpochsChoices == {-1, 1}
AvgDegrees == (-MaxAvgDegree)..MaxAvgDegree
\* generate_params_combinations, line 639: avgdegree is [4] for the lattice
AvgDegreesOf(topologymodel) == IF topologymodel = "la" THEN {4} ELSE AvgDegrees

---------------------------------------------------------------------------
(* Arithmetic helpers *)
Min(a, b) == IF a < b THEN a ELSE b
Abs(d) == IF d < 0 THEN -d ELSE d
Sign(d) == IF d < 0 THEN -1 ELSE IF d > 0 THEN 1 ELSE 0

RECURSIVE SumTo(_, _)
\* f[0] + ... + f[n-1]
SumTo(f, n) == IF n <= 0 THEN 0 ELSE f[n - 1] + SumTo(f, n - 1)

RECURSIVE SumSeq(_)
SumSeq(s) == IF s = <<>> THEN 0 ELSE Head(s) + SumSeq(Tail(s))

RECURSIVE ISqrt(_, _)
\* int(np.sqrt(n)), searched downwards from k
ISqrt(n, k) == IF k * k <= n THEN k ELSE ISqrt(n, k - 1)

\* np.round(num/den) for num >= 0, den > 0: ties go to the even integer
RoundHalfEven(num, den) ==
    LET q == num \div den
        r == num % den
    IN  IF 2 * r < den THEN q
        ELSE IF 2 * r > den THEN q + 1
        ELSE IF q % 2 = 0 THEN q ELSE q + 1

\* list(range(a, a + n))
RangeList(a, n) == IF n <= 0 THEN <<>> ELSE [k \in 1..n |-> a + k - 1]

\* the elements of a sequence
Elems(s) == {s[k] : k \in 1..Len(s)}

\* the number of k with s[k] = x
Count(s, x) == Cardinality({k \in 1..Len(s) : s[k] = x})

\* st[id] with numpy's indexing: a negative id counts from the end
At(st, id) == st[IF id < 0 THEN id + Cardinality(DOMAIN st) ELSE id]

---------------------------------------------------------------------------
(* generate_graph and initialize_gradients *)

\* igraph.Graph.Lattice([side, side], nei=1, circular): vertex x + side*y; the
\* neighbour along a dimension of size 2 is joined once, a dimension of size 1
\* has no edge.
LatticeNeighSet(side, circular, v) ==
    LET x == v % side
        y == v \div side
        Step(c, d) == IF c + d \in 0..(side - 1) THEN c + d
                      ELSE IF circular THEN (c + d + side) % side ELSE c
        xs == {Step(x, -1), Step(x, 1)} \ {x}
        ys == {Step(y, -1), Step(y, 1)} \ {y}
    IN  {xx + side * y : xx \in xs} \cup {x + side * yy : yy \in ys}

RECURSIVE SortedSeq(_)
\* the elements of a set of integers in increasing order
SortedSeq(S) ==
    IF S = {} THEN <<>>
    ELSE LET m == CHOOSE a \in S : \A b \in S : a <= b
         IN  <<m>> \o SortedSeq(S \ {m})

\* the topology kinds generate_graph has a branch for
TopologyKinds == {"la", "er", "ba", "ws"}

\* lines 134-135: erdosprob = avgdegree / nvertices, 1 when above 1, as its
\* numerator over nvertices
ErdosProb(avgdegree, nvertices) ==
    IF avgdegree > nvertices THEN nvertices ELSE avgdegree

\* lines 139-140 and 144-145: m = round(avgdegree/2); if m == 0: m = 1
NeighbourCount(avgdegree) ==
    LET m == RoundHalfEven(avgdegree, 2)
    IN  IF m = 0 THEN 1 ELSE m

\* the graph of one vertex and no edge, built from the argument arg
OneVertexGraphs(arg) ==
    { [vcount |-> 1, neighbors |-> [v \in {0} |-> <<>>],
       gradient |-> [v \in {0} |-> c], arg |-> arg, raised |-> FALSE] : c \in 0..MaxGrad }

\* the outcome of a call that raises: no graph, arg is the argument computed
\* before the call
NoGraph(arg) ==
    [vcount |-> 0, neighbors |-> <<>>, gradient |-> <<>>, arg |-> arg, raised |-> TRUE]

\* the graphs generate_graph can return with their 'gradient' attribute set by
\* initialize_gradients: on the square grid layout every vertex of the 2x2
\* lattice is at the same distance of the midpoint, so the density is one
\* value c >= 0 for all vertices (0 when the density underflows).  The
\* Erdos-Renyi and Barabasi-Albert graphs are modelled on one vertex, where
\* every outcome of the generator is the graph without edges; an argument
\* outside the generator's range either raises or is accepted.
\* Watts_Strogatz(dim, size, nei, p) is called with two arguments and raises.
\* A topology without a branch leaves "layout" unbound at line 149.  The field
\* arg is the argument passed to the generator, raised tells the call failed.
generate_graph(topologymodel, nvertices, avgdegree, latticethoroidal) ==
    CASE topologymodel = "la" ->
           LET mapside == ISqrt(nvertices, nvertices)
               n == mapside * mapside
           IN  { [vcount |-> n,
                  neighbors |-> [v \in 0..(n - 1) |->
                                   SortedSeq(LatticeNeighSet(mapside, latticethoroidal, v))],
                  gradient |-> [v \in 0..(n - 1) |-> c],
                  arg |-> mapside, raised |-> FALSE] : c \in 0..MaxGrad }
      [] topologymodel = "er" /\ nvertices = 1 ->
           LET erdosprob == ErdosProb(avgdegree, nvertices)
           IN  IF erdosprob < 0
               THEN OneVertexGraphs(erdosprob) \cup {NoGraph(erdosprob)}
               ELSE OneVertexGraphs(erdosprob)
      [] topologymodel = "ba" /\ nvertices = 1 ->
           LET m == NeighbourCount(avgdegree)
           IN  IF m < 1
               THEN OneVertexGraphs(m) \cup {NoGraph(m)}
               ELSE OneVertexGraphs(m)
      [] topologymodel = "ws" -> {NoGraph(NeighbourCount(avgdegree))}
      [] topologymodel \notin TopologyKinds -> {NoGraph(0)}
      [] OTHER -> {}

---------------------------------------------------------------------------
(* Initial population, run_experiment lines 209-261 *)

\* any array of N statuses
ShufflesAny(s0, i0, r0) ==
    [0..(s0 + i0 + r0 - 1) -> {SUSCEPTIBLE, INFECTED, RECOVERED}]

\* np.random.shuffle of s0 susceptible, i0 infected, r0 recovered entries:
\* every arrangement of the same entries
Shuffles(s0, i0, r0) ==
    LET N == s0 + i0 + r0
        base == [a \in 0..(N - 1) |-> IF a < s0 THEN SUSCEPTIBLE
                                      ELSE IF a < s0 + i0 THEN INFECTED
                                      ELSE RECOVERED]
        CountOf(f, x) == Cardinality({a \in 0..(N - 1) : f[a] = x})
    IN  {f \in [0..(N - 1) -> {SUSCEPTIBLE, INFECTED, RECOVERED}] :
            \A x \in {SUSCEPTIBLE, INFECTED, RECOVERED} : CountOf(f, x) = CountOf(base, x)}

\* nparticles = np.round(aux / np.sum(aux) * N)
RoundedCounts(w, N, nvertices) ==
    [v \in 0..(nvertices - 1) |-> RoundHalfEven(w[v] * N, SumTo(w, nvertices))]

RECURSIVE CorrectCountsUp(_, _, _)
\* the correction that adds 1 whatever the sign of diff
CorrectCountsUp(counts, idxs, sgn) ==
    IF idxs = <<>> THEN counts
    ELSE CorrectCountsUp([counts EXCEPT ![Head(idxs)] = @ + 1], Tail(idxs), sgn)

RECURSIVE CorrectCounts(_, _, _)
\* for each idx drawn: nparticles[idx] += np.sign(diff)
CorrectCounts(counts, idxs, sgn) ==
    IF idxs = <<>> THEN counts
    ELSE CorrectCounts([counts EXCEPT ![Head(idxs)] = @ + sgn], Tail(idxs), sgn)

\* particles[i] = list(range(aux, aux + nparticles[i])); aux += nparticles[i]
BuildParticles(counts, nvertices) ==
    [i \in 0..(nvertices - 1) |-> RangeList(SumTo(counts, i), counts[i])]

\* the arrays nparticles the initial distribution can produce, for every
\* outcome of the weights (not all 0.0), of the rounding and of the idx drawn
InitialCounts(N, nvertices) ==
    UNION { LET rounded == RoundedCounts(w, N, nvertices)
                diff == N - SumTo(rounded, nvertices)
            IN  { CorrectCounts(rounded, idxs, Sign(diff)) :
                    idxs \in [1..Abs(diff) -> 0..(nvertices - 1)] }
          : w \in {u \in [0..(nvertices - 1) -> 0..MaxWeight] : SumTo(u, nvertices) > 0} }

\* the membership lists the initial distribution can produce
InitialParticles(N, nvertices) ==
    {BuildParticles(c, nvertices) : c \in InitialCounts(N, nvertices)}

\* InitialCounts for every number of agents and of vertices considered
\* nagents = 2*nvertices is the largest N of fractions that sum to 1
InitialCountsOf ==
    [N \in 1..8 |-> [nv \in NVerticesModelled |-> InitialCounts(N, nv)]]

\* the <<s0, i0, r0>> with 1 to n agents
Triples(n) ==
    {t \in (0..n) \X (0..n) \X (0..n) : t[1] + t[2] + t[3] \in 1..n}

---------------------------------------------------------------------------
(* step_mobility *)

\* np.searchsorted(probs.cumsum(), d/RandSteps) for probs = weights/sum(weights):
\* the first 0-based index k whose cumulative sum reaches the draw, or
\* Len(weights) when none does
SearchSorted(weights, d) ==
    LET W == SumSeq(weights)
        Cum(k) == SumSeq(SubSeq(weights, 1, k))
        hits == {k \in 1..Len(weights) : Cum(k) * RandSteps >= d * W}
    IN  IF hits = {} THEN Len(weights)
        ELSE (CHOOSE k \in hits : \A h \in hits : k <= h) - 1

\* lst[np.searchsorted(probs.cumsum(), np.random.rand())]
fast_random_choice(lst, weights, d) == lst[SearchSorted(weights, d) + 1]

\* the gradients of the neighbours of i without the branch for a zero sum
NeighbourWeightsNoFallback(gr, i) ==
    [k \in 1..Len(gr.neighbors[i]) |-> gr.gradient[gr.neighbors[i][k]]]

\* gradients of the neighbours of i: all ones when their sum is 0 (the
\* normalisation by the sum is the division inside SearchSorted)
NeighbourWeights(gr, i) ==
    LET neighids == gr.neighbors[i]
        gradients == [k \in 1..Len(neighids) |-> gr.gradient[neighids[k]]]
    IN  IF SumSeq(gradients) = 0 THEN [k \in 1..Len(neighids) |-> 1] ELSE gradients

\* where one particle of vertex i can end: i itself when the first draw is
\* <= autoloop_prob or the vertex has no neighbour, else the neighbour drawn
Destinations(gr, i) ==
    LET neighids == gr.neighbors[i]
        stays == \E d \in RandVals : 2 * d <= autoloop_prob2 * RandSteps
        moves == \E d \in RandVals : 2 * d > autoloop_prob2 * RandSteps
    IN  (IF stays \/ neighids = <<>> THEN {i} ELSE {})
        \cup (IF moves /\ neighids # <<>>
              THEN {fast_random_choice(neighids, NeighbourWeights(gr, i), d) : d \in RandVals}
              ELSE {})

\* list.remove(x): the list without the first occurrence of x
Remove(lst, x) ==
    LET k == CHOOSE j \in 1..Len(lst) : lst[j] = x /\ \A h \in 1..(j - 1) : lst[h] # x
    IN  SubSeq(lst, 1, k - 1) \o SubSeq(lst, k + 1, Len(lst))

\* the append without the remove
MoveParticleCopy(P, i, partic, neighid) ==
    [P EXCEPT ![neighid] = Append(@, partic)]

\* particles[i].remove(partic); particles[neighid].append(partic)
MoveParticle(P, i, partic, neighid) ==
    LET Q == [P EXCEPT ![i] = Remove(@, partic)]
    IN  [Q EXCEPT ![neighid] = Append(@, partic)]

RECURSIVE MobilityFromLive(_, _, _, _, _)
\* the loops run over the lists being updated instead of the copy: the j-th
\* entry of the live list of vertex i is the particle considered
MobilityFromLive(gr, P, particles_fixed, i, j) ==
    IF i >= gr.vcount THEN {P}
    ELSE IF j > Len(P[i]) THEN MobilityFromLive(gr, P, particles_fixed, i + 1, 1)
    ELSE UNION { MobilityFromLive(gr,
                                  IF dest = i THEN P ELSE MoveParticle(P, i, P[i][j], dest),
                                  particles_fixed, i, j + 1)
                 : dest \in Destinations(gr, i) }

RECURSIVE MobilityFromRemoveFirst(_, _, _, _, _)
\* the loops with the test for an empty neighbour list placed after
\* particles[i].remove(partic)
MobilityFromRemoveFirst(gr, P, particles_fixed, i, j) ==
    IF i >= gr.vcount THEN {P}
    ELSE IF j > Len(particles_fixed[i])
    THEN MobilityFromRemoveFirst(gr, P, particles_fixed, i + 1, 1)
    ELSE UNION ({ MobilityFromRemoveFirst(gr,
                      IF dest = i THEN P
                      ELSE MoveParticle(P, i, particles_fixed[i][j], dest),
                      particles_fixed, i, j + 1)
                  : dest \in Destinations(gr, i) }
                \cup (IF gr.neighbors[i] = <<>>
                      THEN { MobilityFromRemoveFirst(gr,
                                [P EXCEPT ![i] = Remove(@, particles_fixed[i][j])],
                                particles_fixed, i, j + 1) }
                      ELSE {}))

RECURSIVE MobilityFrom(_, _, _, _, _)
\* the lists the loops over the vertices i.. and the particles j.. of the
\* copy particles_fixed can leave, starting from the lists P
MobilityFrom(gr, P, particles_fixed, i, j) ==
    IF i >= gr.vcount THEN {P}
    ELSE IF j > Len(particles_fixed[i]) THEN MobilityFrom(gr, P, particles_fixed, i + 1, 1)
    ELSE UNION { MobilityFrom(gr,
                              IF dest = i THEN P
                              ELSE MoveParticle(P, i, particles_fixed[i][j], dest),
                              particles_fixed, i, j + 1)
                 : dest \in Destinations(gr, i) }

\* every return value of step_mobility(g, particles, autoloop_prob)
step_mobility(gr, P) == MobilityFrom(gr, P, P, 0, 1)

---------------------------------------------------------------------------
(* step_transmission *)

\* np.where(st == val)[0]: the indices holding val, increasing
IndWhere(st, val) == SortedSeq({a \in DOMAIN st : st[a] = val})

RECURSIVE HitCounts(_, _)
\* the values np.sum(np.random.rand(n) <= p) can take
HitCounts(n, p2) ==
    IF n <= 0 THEN {0}
    ELSE { k + h : k \in HitCounts(n - 1, p2),
                   h \in {IF 2 * d <= p2 * RandSteps THEN 1 ELSE 0 : d \in RandVals} }

\* the indices of the slice inds[0:k]
FirstOf(inds, k) == {inds[j] : j \in 1..Min(k, Len(inds))}

\* st[inds[0:k]] = val
AssignFirst(st, inds, k, val) ==
    [a \in DOMAIN st |-> IF a \in FirstOf(inds, k) THEN val ELSE st[a]]

\* whether every id of the list is an index numpy accepts for the array
ValidIndices(st, lst) ==
    \A k \in 1..Len(lst) : -Cardinality(DOMAIN st) <= lst[k] /\ lst[k] < Cardinality(DOMAIN st)

\* the statuses of the occupants of a vertex, statuses_fixed[particles[i]]
OccupantStatuses(fixed, lst) == [k \in 1..Len(lst) |-> At(fixed, lst[k])]

\* the assignments with the index arrays exchanged
ApplyTransitionsSwapped(st, fixed, numnewinfected, numnewrecovered) ==
    LET indsusceptible == IndWhere(fixed, SUSCEPTIBLE)
        indinfected == IndWhere(fixed, INFECTED)
    IN  AssignFirst(AssignFirst(st, indinfected, numnewinfected, INFECTED),
                    indsusceptible, numnewrecovered, RECOVERED)

\* the assignments with the infected indices read from the array being
\* updated instead of the copy
ApplyTransitionsLive(st, fixed, numnewinfected, numnewrecovered) ==
    LET indsusceptible == IndWhere(fixed, SUSCEPTIBLE)
        infected == AssignFirst(st, indsusceptible, numnewinfected, INFECTED)
    IN  AssignFirst(infected, IndWhere(infected, INFECTED), numnewrecovered, RECOVERED)

\* the two assignments that end the body of the loop over the vertices
ApplyTransitions(st, fixed, numnewinfected, numnewrecovered) ==
    LET indsusceptible == IndWhere(fixed, SUSCEPTIBLE)
        indinfected == IndWhere(fixed, INFECTED)
    IN  AssignFirst(AssignFirst(st, indsusceptible, numnewinfected, INFECTED),
                    indinfected, numnewrecovered, RECOVERED)

RECURSIVE TransmissionFromLive(_, _, _, _, _, _, _, _)
\* the loop over the vertices with the occupants' statuses read from the
\* array being updated instead of statuses_fixed
TransmissionFromLive(gr, st, fixed, beta2, gamma2, P, i, acc) ==
    IF i >= gr.vcount
    THEN {[status |-> st, ntransmissions |-> acc.inf, nrecovered |-> acc.rec, raised |-> FALSE]}
    ELSE IF ~ValidIndices(fixed, P[i])
    THEN {[status |-> st, ntransmissions |-> acc.inf, nrecovered |-> acc.rec, raised |-> TRUE]}
    ELSE LET statuses == OccupantStatuses(st, P[i])
             nsusceptible == Count(statuses, SUSCEPTIBLE)
             ninfected == Count(statuses, INFECTED)
         IN  UNION { LET numnewinfected == Min(x, nsusceptible)
                         numnewrecovered == Min(y, ninfected)
                     IN  TransmissionFromLive(gr,
                            ApplyTransitions(st, fixed, numnewinfected, numnewrecovered),
                            fixed, beta2, gamma2, P, i + 1,
                            [inf |-> [acc.inf EXCEPT ![i] = numnewinfected],
                             rec |-> [acc.rec EXCEPT ![i] = numnewrecovered]])
                     : x \in HitCounts(nsusceptible * ninfected, beta2),
                       y \in HitCounts(ninfected, gamma2) }

RECURSIVE TransmissionFrom(_, _, _, _, _, _, _, _)
\* what the loop over the vertices i.. can leave: the status array, the
\* per-vertex numnewinfected and numnewrecovered, and whether
\* statuses_fixed[particles[i]] raised an IndexError
TransmissionFrom(gr, st, fixed, beta2, gamma2, P, i, acc) ==
    IF i >= gr.vcount
    THEN {[status |-> st, ntransmissions |-> acc.inf, nrecovered |-> acc.rec, raised |-> FALSE]}
    ELSE IF ~ValidIndices(fixed, P[i])
    THEN {[status |-> st, ntransmissions |-> acc.inf, nrecovered |-> acc.rec, raised |-> TRUE]}
    ELSE LET statuses == OccupantStatuses(fixed, P[i])
             nsusceptible == Count(statuses, SUSCEPTIBLE)
             ninfected == Count(statuses, INFECTED)
         IN  UNION { LET numnewinfected == Min(x, nsusceptible)
                         numnewrecovered == Min(y, ninfected)
                     IN  TransmissionFrom(gr,
                            ApplyTransitions(st, fixed, numnewinfected, numnewrecovered),
                            fixed, beta2, gamma2, P, i + 1,
                            [inf |-> [acc.inf EXCEPT ![i] = numnewinfected],
                             rec |-> [acc.rec EXCEPT ![i] = numnewrecovered]])
                     : x \in HitCounts(nsusceptible * ninfected, beta2),
                       y \in HitCounts(ninfected, gamma2) }

\* every outcome of step_transmission(g, status, beta, gamma, particles)
step_transmission(gr, st, beta2, gamma2, P) ==
    LET zeros == [v \in 0..(gr.vcount - 1) |-> 0]
    IN  TransmissionFrom(gr, st, st, beta2, gamma2, P, 0, [inf |-> zeros, rec |-> zeros])

---------------------------------------------------------------------------
(* compute_statuses_sums *)

\* dist[i, :] = np.bincount(status[particles[i]], minlength=3)
Bincount(st, lst) ==
    [c \in {SUSCEPTIBLE, INFECTED, RECOVERED} |-> Count(OccupantStatuses(st, lst), c)]

\* np.sum(dist, 0) as <<S, I, R>>
compute_statuses_sums(st, P, nvertices) ==
    LET dist == [i \in 0..(nvertices - 1) |-> Bincount(st, P[i])]
    IN  [c \in {SUSCEPTIBLE, INFECTED, RECOVERED} |->
            SumTo([i \in 0..(nvertices - 1) |-> dist[i][c]], nvertices)]

---------------------------------------------------------------------------
(* run_experiment *)

NAgents == cfg.s0 + cfg.i0 + cfg.r0
Vertices == 0..(cfg.nvertices - 1)
Agents == 0..(NAgents - 1)
ZeroRow == [c \in {SUSCEPTIBLE, INFECTED, RECOVERED} |-> 0]

\* maxepoch = nepochs if nepochs > 0 else MAX
maxepoch == IF cfg.nepochs > 0 THEN cfg.nepochs ELSE MAX


\* statuscountsum[0, :] = [cfg['s0'], cfg['i0'], cfg['r0']]: the fractions of
\* the configuration stored in an integer array, the fraction of a count
\* being count/nagents with nagents = 2*nvertices
InitialRow(nvertices, sir0) ==
    [c \in {SUSCEPTIBLE, INFECTED, RECOVERED} |-> sir0[c + 1] \div (2 * nvertices)]

\* np.std([len(x) for x in particles]) as n^2 times its square,
\* n*sum(len^2) - sum(len)^2 for the n lists
OccupancySpread(P, nvertices) ==
    LET lens == [v \in 0..(nvertices - 1) |-> Len(P[v])]
        squares == [v \in 0..(nvertices - 1) |-> Len(P[v]) * Len(P[v])]
    IN  nvertices * SumTo(squares, nvertices)
           - SumTo(lens, nvertices) * SumTo(lens, nvertices)

\* the state on entry of the loop, for a configuration drawn from the given
\* sets; for a topology kind generate_graph has no branch for, the state in
\* which its "layout.coords" raises (line 149, called from line 240)
InitWith(NV, TOP, TOR, BETA, GAMMA, NEP, SIR0) ==
    \E nv \in NV, top \in TOP, toroidal \in TOR, beta2 \in BETA, gamma2 \in GAMMA, nep \in NEP,
       sir0 \in SIR0, seed \in Seeds :
      \E avgdegree \in AvgDegreesOf(top) :
        /\ sir0[1] + sir0[2] + sir0[3] >= 1
        /\ cfg = [nvertices |-> nv, topologymodel |-> top, lathoroidal |-> toroidal, nepochs |-> nep,
                  s0 |-> sir0[1], i0 |-> sir0[2], r0 |-> sir0[3],
                  beta2 |-> beta2, gamma2 |-> gamma2, randomseed |-> seed,
                  avgdegree |-> avgdegree]
        /\ status \in Shuffles(sir0[1], sir0[2], sir0[3])
        /\ statuscountsum = [t \in 0..(MAXITERS - 1) |->
                                IF t = 0 THEN InitialRow(nv, sir0) ELSE ZeroRow]
        /\ g \in generate_graph(top, nv, avgdegree, toroidal)
        /\ IF ~g.raised
           THEN /\ nparticles \in InitialCountsOf[sir0[1] + sir0[2] + sir0[3]][nv]
                /\ particles = BuildParticles(nparticles, nv)
                /\ ntransmissions = [v \in 0..(nv - 1) |-> 0]
                /\ nparticlesstds = [t \in 0..(MAXITERS - 1) |-> 0]
                /\ written = {"outdir", "config.json", "attraction.csv"}
                /\ pc = "mobility"
           ELSE /\ nparticles = <<>>
                /\ particles = <<>>
                /\ ntransmissions = <<>>
                /\ nparticlesstds = <<>>
                /\ written = {"outdir", "config.json"}
                /\ pc = "error"
        /\ ep = 0
        /\ lastepoch = -1
        /\ statuses_fixed = <<>>
        /\ newtransmissions = <<>>
        /\ newrecovered = <<>>
        /\ summary = <<>>
        /\ rngusers = {0}

\* lines 303-308: one more turn of the loop; step_mobility, then the write of
\* nparticlesstds[ep], an IndexError once ep has reached the array's length
StepMobility ==
    /\ pc = "mobility"
    /\ lastepoch' = ep
    /\ particles' \in step_mobility(g, particles)
    /\ IF ep >= MAXITERS
       THEN /\ pc' = "error"
            /\ UNCHANGED nparticlesstds
       ELSE /\ pc' = "transmission"
            /\ nparticlesstds' = [nparticlesstds EXCEPT
                    ![ep] = OccupancySpread(particles', cfg.nvertices)]
    /\ UNCHANGED <<cfg, g, status, nparticles, ntransmissions, statuscountsum, written, ep,
                   statuses_fixed, newtransmissions, newrecovered, summary, rngusers>>

\* line 309: status, newtransmissions = step_transmission(...)
StepTransmission ==
    /\ pc = "transmission"
    /\ \E r \in step_transmission(g, status, cfg.beta2, cfg.gamma2, particles) :
        /\ status' = r.status
        /\ newtransmissions' = r.ntransmissions
        /\ newrecovered' = r.nrecovered
        /\ pc' = IF r.raised THEN "error" ELSE "aggregate"
    /\ statuses_fixed' = status
    /\ UNCHANGED <<cfg, g, nparticles, particles, ntransmissions, statuscountsum,
                   nparticlesstds, written, ep, lastepoch, summary, rngusers>>

\* "a += b" replaced by "a = b"
ReplaceCounters(a, b) ==
    IF Cardinality(DOMAIN b) = Cardinality(DOMAIN a) THEN b ELSE a

\* numpy's in-place "a += b" of two vectors: b has the length of a, or the
\* length 1 and is broadcast; any other pair of lengths raises ValueError
Broadcastable(a, b) ==
    Cardinality(DOMAIN b) = Cardinality(DOMAIN a) \/ Cardinality(DOMAIN b) = 1

\* the value of a after "a += b", a itself when the addition raises; the
\* vectors are functions over 0..n-1
AddCounters(a, b) ==
    IF Cardinality(DOMAIN b) = Cardinality(DOMAIN a) THEN [v \in DOMAIN a |-> a[v] + b[v]]
    ELSE IF Cardinality(DOMAIN b) = 1 THEN [v \in DOMAIN a |-> a[v] + b[0]]
    ELSE a

\* a stop on the susceptible agents instead of the infected ones
StopNowSusceptible(nepochs, st) ==
    nepochs = -1 /\ \A a \in DOMAIN st : st[a] # SUSCEPTIBLE

\* line 315: if nepochs == -1 and np.sum(status==INFECTED) == 0: break
StopNow(nepochs, st) ==
    nepochs = -1 /\ \A a \in DOMAIN st : st[a] # INFECTED

\* lines 310-315: the counters, the row of the epoch, the stop condition and
\* the end of the loop
Aggregate ==
    /\ pc = "aggregate"
    /\ ntransmissions' = AddCounters(ntransmissions, newtransmissions)
    /\ IF \/ ~Broadcastable(ntransmissions, newtransmissions)
          \/ \E i \in Vertices : ~ValidIndices(status, particles[i])
       THEN /\ pc' = "error"
            /\ UNCHANGED <<statuscountsum, ep>>
       ELSE /\ statuscountsum' = [statuscountsum EXCEPT
                    ![ep] = compute_statuses_sums(status, particles, cfg.nvertices)]
            /\ IF StopNow(cfg.nepochs, status) \/ ep + 1 >= maxepoch
               THEN pc' = "export" /\ ep' = ep
               ELSE pc' = "mobility" /\ ep' = ep + 1
    /\ statuses_fixed' = <<>>
    /\ newtransmissions' = <<>>
    /\ newrecovered' = <<>>
    /\ UNCHANGED <<cfg, g, status, nparticles, particles, nparticlesstds, written,
                   lastepoch, summary, rngusers>>

\* the export without the truncation of line 331-332
ExportUntruncated ==
    /\ pc = "export"
    /\ summary' = [t \in 1..MAXITERS |->
                      [c \in 0..3 |-> IF c = 3 THEN nparticlesstds[t - 1]
                                      ELSE statuscountsum[t - 1][c]]]
    /\ written' = written \cup {"ntranmissions.csv", "sir.csv", "sir.png", "elapsed.csv"}
    /\ pc' = "done"
    /\ UNCHANGED <<cfg, g, status, nparticles, particles, ntransmissions, statuscountsum,
                   nparticlesstds, ep, lastepoch, statuses_fixed, newtransmissions,
                   newrecovered, rngusers>>

\* lines 331-355: the truncation to lastepoch+1 rows and the files written;
\* a row of sir.csv holds the columns S, I, R and nparticlesstd (column 3)
Export ==
    /\ pc = "export"
    /\ summary' = [t \in 1..(lastepoch + 1) |->
                      [c \in 0..3 |-> IF c = 3 THEN nparticlesstds[t - 1]
                                      ELSE statuscountsum[t - 1][c]]]
    /\ written' = written \cup {"ntranmissions.csv", "sir.csv", "sir.png", "elapsed.csv"}
    /\ pc' = "done"
    /\ UNCHANGED <<cfg, g, status, nparticles, particles, ntransmissions, statuscountsum,
                   nparticlesstds, ep, lastepoch, statuses_fixed, newtransmissions,
                   newrecovered, rngusers>>

Next == StepMobility \/ StepTransmission \/ Aggregate \/ Export

\* main, lines 720-721 with nprocs = 1: the list comprehension calls
\* run_experiment for the next element of params once the call before has
\* returned, in the same process.  Every object of run_experiment is a local
\* built anew; the draws of lines 214, 249, 254, 494, 533 and 534 come from the
\* module-level generator of np.random, which no line seeds, so the experiment
\* joins the users of that one generator.  The next element differs from the
\* one before in its randomseed; written holds the files of the directory of
\* the experiment, outdir/expidx.
RunNextExperiment ==
    /\ pc = "done"
    /\ Cardinality(rngusers) < MaxExperiments
    /\ rngusers' = rngusers \cup {Cardinality(rngusers)}
    /\ cfg' = [cfg EXCEPT !.randomseed = cfg.randomseed + 1]
    /\ status' \in Shuffles(cfg.s0, cfg.i0, cfg.r0)
    /\ statuscountsum' = [t \in 0..(MAXITERS - 1) |->
                             IF t = 0 THEN InitialRow(cfg.nvertices, <<cfg.s0, cfg.i0, cfg.r0>>)
                             ELSE ZeroRow]
    /\ g' \in generate_graph(cfg.topologymodel, cfg.nvertices, cfg.avgdegree, cfg.lathoroidal)
    /\ IF ~g'.raised
       THEN /\ nparticles' \in InitialCountsOf[NAgents][cfg.nvertices]
            /\ particles' = BuildParticles(nparticles', cfg.nvertices)
            /\ ntransmissions' = [v \in Vertices |-> 0]
            /\ nparticlesstds' = [t \in 0..(MAXITERS - 1) |-> 0]
            /\ written' = {"outdir", "config.json", "attraction.csv"}
            /\ pc' = "mobility"
       ELSE /\ nparticles' = <<>>
            /\ particles' = <<>>
            /\ ntransmissions' = <<>>
            /\ nparticlesstds' = <<>>
            /\ written' = {"outdir", "config.json"}
            /\ pc' = "error"
    /\ ep' = 0
    /\ lastepoch' = -1
    /\ statuses_fixed' = <<>>
    /\ newtransmissions' = <<>>
    /\ newrecovered' = <<>>
    /\ summary' = <<>>

\* the steps of main running the elements of params one after the other
NextMain == Next \/ RunNextExperiment

Init ==
    InitWith(NVerticesChoices, {"la"}, {TRUE}, Prob2, Prob2, NEpochsChoices,
             Triples(MaxAgents))

Spec == Init /\ [][Next]_vars

\* the lists hold every agent id once: the rounding correction took no count
\* below zero
IsPartition(P, N) ==
    /\ \A v \in DOMAIN P : \A k \in 1..Len(P[v]) : P[v][k] \in 0..(N - 1)
    /\ \A a \in 0..(N - 1) :
          Cardinality({v \in DOMAIN P : \E k \in 1..Len(P[v]) : P[v][k] = a}) = 1
    /\ \A v \in DOMAIN P : \A j, k \in 1..Len(P[v]) : P[v][j] = P[v][k] => j = k

\* runs of at most MaxAgents agents whose initial lists are a partition
InitPartitioned ==
    /\ InitWith(NVerticesChoices, {"la"}, {TRUE}, Prob2, Prob2, NEpochsChoices,
                Triples(MaxAgents))
    /\ IsPartition(particles, NAgents)

SpecPartitioned == InitPartitioned /\ [][Next]_vars

\* one epoch of two susceptible agents and an infected one
InitThree ==
    /\ InitWith(NVerticesChoices, {"la"}, {TRUE}, Prob2, Prob2, {1}, {<<2, 1, 0>>})
    /\ IsPartition(particles, NAgents)

SpecThree == InitThree /\ [][Next]_vars

\* two epochs of two susceptible agents and an infected one,
\* beta = gamma = 0.5, on a positive density
InitThreeRun ==
    /\ InitWith(NVerticesChoices, {"la"}, {TRUE}, {1}, {1}, {2}, {<<2, 1, 0>>})
    /\ IsPartition(particles, NAgents)
    /\ g.gradient[0] = 1

SpecThreeRun == InitThreeRun /\ [][Next]_vars

\* one epoch on the random topologies, for every mean degree
InitTopology ==
    InitWith({1}, {"er", "ba", "ws"}, {TRUE}, {1}, {1}, {1}, Triples(MaxAgentsIsolated))

SpecTopology == InitTopology /\ [][Next]_vars

\* the fixed epoch budgets 0, 1 and 2 on the one-vertex lattice
InitBudget ==
    InitWith({1}, {"la"}, {TRUE}, {1}, {1}, {0, 1, 2}, Triples(MaxAgentsIsolated))

SpecBudget == InitBudget /\ [][Next]_vars

\* one epoch with nvertices = 2, which is not a square
InitLattice ==
    InitWith({2}, {"la"}, {TRUE, FALSE}, {1, 2}, {1}, {1}, Triples(MaxAgentsIsolated))

SpecLattice == InitLattice /\ [][Next]_vars

\* End-to-end scenario 1: the 4-vertex toroidal lattice with 8 agents, 6
\* susceptible and 2 infected, beta = 1 and gamma = 0, two agents per vertex at
\* the start, for one epoch
InitScenario1 ==
    /\ InitWith({4}, {"la"}, {TRUE}, {2}, {0}, {1}, {<<6, 2, 0>>})
    /\ \A v \in Vertices : particles[v] = <<2 * v, 2 * v + 1>>
    /\ status[0] = INFECTED
    /\ g.gradient[0] = 1

SpecScenario1 == InitScenario1 /\ [][Next]_vars

\* runs with a configuration the spec calls invalid next to valid ones: an
\* unknown topology kind, beta = 1.5, gamma = -0.5, more agents than
\* nagents = 2*nvertices (fractions summing to more than 1)
InitConfig ==
    InitWith({1}, {"la", "xx"}, {TRUE}, {0, 2, 3}, {-1, 0, 2}, {1},
             Triples(MaxAgentsIsolated))

SpecConfig == InitConfig /\ [][Next]_vars

\* runs on the 1x1 lattice, whose vertex has no neighbour
InitIsolated ==
    InitWith({1}, {"la"}, {TRUE, FALSE}, Prob2, Prob2, NEpochsChoices,
             Triples(MaxAgentsIsolated))

SpecIsolated == InitIsolated /\ [][Next]_vars

\* one epoch from every initial population of at most MaxAgents agents
InitOneEpoch ==
    InitWith(NVerticesChoices, {"la"}, {TRUE}, {1}, {1}, {1}, Triples(MaxAgents))

SpecOneEpoch == InitOneEpoch /\ [][Next]_vars

\* main with nprocs = 1 running two experiments of one epoch
SpecMain == InitOneEpoch /\ [][NextMain]_vars

---------------------------------------------------------------------------
(* Properties *)

\* the agent a list entry stands for (numpy reads a negative id from the end)
AgentOf(id) == IF id < 0 THEN id + NAgents ELSE id

\* the agents listed at vertex v
OccupantsOf(v) == {AgentOf(particles[v][k]) : k \in 1..Len(particles[v])}

\* the agents with status c in the array st
Having(st, c) == {a \in DOMAIN st : st[a] = c}

\* the rows of statuscountsum written so far
RowsWritten == IF pc \in {"export", "done"} THEN 0..ep ELSE 0..(ep - 1)

\* the number of entries of the membership lists that hold the agent id
Occurrences(P, id) ==
    LET n == Cardinality(DOMAIN P)
    IN  SumTo([v \in 0..(n - 1) |-> Count(P[v], id)], n)

\* C1: in the initial state and after every epoch the membership lists are
\* pairwise disjoint, hold no id twice and together hold exactly 0..N-1.
C1_PartitionInvariant == IsPartition(particles, NAgents)

\* C2: the agents that the draw of vertex v turns from S to I are susceptible
\* occupants of v, and those it turns from I to R are infected occupants of v.
C2_TransmissionIsLocal ==
    pc = "aggregate" =>
        \A v \in 0..(g.vcount - 1) :
            /\ FirstOf(IndWhere(statuses_fixed, SUSCEPTIBLE), newtransmissions[v])
                  \subseteq (OccupantsOf(v) \cap Having(statuses_fixed, SUSCEPTIBLE))
            /\ FirstOf(IndWhere(statuses_fixed, INFECTED), newrecovered[v])
                  \subseteq (OccupantsOf(v) \cap Having(statuses_fixed, INFECTED))

\* C3: what an epoch adds to the counter of vertex v is the number of agents
\* at v that went from S to I in that epoch, and the counters sum to
\* S(initial) - S(t).
C3_CountersCountInfections ==
    /\ pc = "aggregate" =>
          \A v \in 0..(g.vcount - 1) :
              newtransmissions[v] =
                  Cardinality(OccupantsOf(v) \cap Having(statuses_fixed, SUSCEPTIBLE)
                                             \cap Having(status, INFECTED))
    /\ pc \in {"export", "done"} =>
          SumTo(ntransmissions, cfg.nvertices) = cfg.s0 - statuscountsum[ep][SUSCEPTIBLE]

\* C4: every emitted row has S + I + R = N.
C4_Conservation ==
    \A t \in 1..Len(summary) :
        summary[t][SUSCEPTIBLE] + summary[t][INFECTED] + summary[t][RECOVERED] = NAgents

\* C5: from one state to the next an agent keeps its status or goes from S to
\* I or from I to R.
C5_StatusMonotonic ==
    [][\A a \in Agents :
          \/ status'[a] = status[a]
          \/ status[a] = SUSCEPTIBLE /\ status'[a] = INFECTED
          \/ status[a] = INFECTED /\ status'[a] = RECOVERED]_vars

\* an epoch in which some agent changed status
C5_Witness ==
    /\ pc = "aggregate"
    /\ \E a, b \in Agents :
          /\ statuses_fixed[a] = SUSCEPTIBLE /\ status[a] = INFECTED
          /\ statuses_fixed[b] = INFECTED /\ status[b] = RECOVERED

\* C6: after a call of step_transmission no agent that was susceptible on
\* entry is recovered, and every agent recovered by the call was infected on
\* entry.
C6_NoDoubleTransition ==
    pc = "aggregate" =>
        \A a \in Agents :
            /\ statuses_fixed[a] = SUSCEPTIBLE => status[a] # RECOVERED
            /\ (status[a] = RECOVERED /\ statuses_fixed[a] # RECOVERED)
                  => statuses_fixed[a] = INFECTED

\* a call that infected one agent and recovered another on the same vertex
C6_Witness ==
    /\ pc = "aggregate"
    /\ \E v \in Vertices : newtransmissions[v] > 0 /\ newrecovered[v] > 0
    /\ \E a \in Agents : statuses_fixed[a] = SUSCEPTIBLE /\ status[a] = INFECTED
    /\ \E b \in Agents : statuses_fixed[b] = INFECTED /\ status[b] = RECOVERED

\* C7: with beta = 0 and gamma = 1 the row of the first epoch has I = 0 and
\* R = R(0) + I(0).
C7_AllRecoverInOneEpoch ==
    (cfg.beta2 = 0 /\ cfg.gamma2 = 2 /\ 0 \in RowsWritten) =>
        /\ statuscountsum[0][INFECTED] = 0
        /\ statuscountsum[0][RECOVERED] = cfg.r0 + cfg.i0

\* C8: in scenario 1, after the transmission step of the first epoch every
\* agent that was susceptible and shared its vertex with an infected agent is
\* infected, and the number of infected agents has not decreased.
C8_Scenario1 ==
    (pc = "aggregate" /\ ep = 0) =>
        /\ \A v \in Vertices :
              (OccupantsOf(v) \cap Having(statuses_fixed, INFECTED) # {})
                  => \A a \in OccupantsOf(v) :
                         statuses_fixed[a] = SUSCEPTIBLE => status[a] = INFECTED
        /\ Cardinality(Having(status, INFECTED))
              >= Cardinality(Having(statuses_fixed, INFECTED))

\* C9: with beta = 0 and gamma = 0 all rows hold the same S and the same I.
C9_NoTransmissionNoChange ==
    (cfg.beta2 = 0 /\ cfg.gamma2 = 0) =>
        \A t, u \in RowsWritten :
            /\ statuscountsum[t][SUSCEPTIBLE] = statuscountsum[u][SUSCEPTIBLE]
            /\ statuscountsum[t][INFECTED] = statuscountsum[u][INFECTED]

\* C10: with nepochs = -1, beta = 0, gamma = 1 and an infected agent the loop
\* takes no second turn.
C10_StopsAfterFirstEpoch ==
    (cfg.nepochs = -1 /\ cfg.beta2 = 0 /\ cfg.gamma2 = 2 /\ cfg.i0 > 0) =>
        ~(pc = "mobility" /\ ep >= 1)

\* C11: in run-until-no-infected mode the loop raises no error and executes
\* at most MAXITERS epochs: reaching the ceiling is a normal stop.
C11_CeilingIsNormalStop ==
    cfg.nepochs = -1 => (pc # "error" /\ ep < MAXITERS)

\* the vertex whose list holds agent a
VertexOf(P, a) == CHOOSE v \in DOMAIN P : \E k \in 1..Len(P[v]) : P[v][k] = a

\* C12: a call of step_mobility leaves every agent in exactly one list, at the
\* vertex it had on entry or at a neighbour of that vertex (an agent that
\* arrived at a vertex is not moved again).
C12_MobilitySnapshot ==
    [][pc = "mobility" =>
          /\ IsPartition(particles', NAgents)
          /\ \A a \in Agents :
                \/ VertexOf(particles', a) = VertexOf(particles, a)
                \/ VertexOf(particles', a) \in Elems(g.neighbors[VertexOf(particles, a)])]_vars

\* after the first step_mobility some agent with a lower id is at a vertex
\* with a higher index than an agent with a higher id: an agent has moved
C12_Witness ==
    /\ pc = "transmission"
    /\ ep = 0
    /\ \E a, b \in Agents : a < b /\ VertexOf(particles, a) > VertexOf(particles, b)

\* C13: the emitted series has one row more than the epochs executed, the
\* first row holding the S, I, R counts of the initial population.
C13_InitialRowEmitted ==
    pc = "done" =>
        /\ Len(summary) = (lastepoch + 1) + 1
        /\ summary[1][SUSCEPTIBLE] = cfg.s0
        /\ summary[1][INFECTED] = cfg.i0
        /\ summary[1][RECOVERED] = cfg.r0

\* C14: the emitted series has exactly the rows 0..last executed epoch; the
\* row of an epoch is written with the counts of the population and the
\* occupancy spread of that epoch, and is not modified afterwards.
C14_TruncatedSeries ==
    /\ [](pc = "done" =>
             /\ Len(summary) = ep + 1
             /\ \A t \in 1..Len(summary) :
                   /\ \A c \in {SUSCEPTIBLE, INFECTED, RECOVERED} :
                         summary[t][c] = statuscountsum[t - 1][c]
                   /\ summary[t][3] = nparticlesstds[t - 1]
             /\ \A c \in {SUSCEPTIBLE, INFECTED, RECOVERED} :
                   summary[ep + 1][c] = Cardinality(Having(status, c))
             /\ summary[ep + 1][3] = OccupancySpread(particles, cfg.nvertices))
    /\ [][\A t \in RowsWritten : statuscountsum'[t] = statuscountsum[t]]_vars
    /\ [][\A t \in 0..(ep - 1) : nparticlesstds'[t] = nparticlesstds[t]]_vars
    /\ [][(pc = "aggregate" /\ pc' # "error") =>
             \A c \in {SUSCEPTIBLE, INFECTED, RECOVERED} :
                 statuscountsum'[ep][c] = Cardinality(Having(status, c))]_vars

\* a run stopped before the ceiling, with fewer rows than the arrays hold
C14_Witness ==
    /\ pc = "done"
    /\ Len(summary) = 1
    /\ Len(summary) < MAXITERS
    /\ \E v, w \in Vertices : Len(particles[v]) # Len(particles[w])

\* a configuration the spec calls invalid
ConfigInvalid ==
    \/ cfg.topologymodel \notin TopologyKinds
    \/ NAgents > 2 * cfg.nvertices
    \/ cfg.beta2 \notin 0..2
    \/ cfg.gamma2 \notin 0..2

\* C15: with an invalid configuration run_experiment has failed, no status
\* array, graph or population has been built and nothing has been written.
C15_ConfigErrorsFailFast ==
    ConfigInvalid =>
        /\ pc = "error"
        /\ written = {}
        /\ status = <<>>
        /\ particles = <<>>
        /\ g.vcount = 0

\* C16: every initialization that a run with this configuration, hence this
\* randomseed, can produce has the status array and the per-vertex occupancy
\* of this run.
C16_SeedDeterminism ==
    (pc = "mobility" /\ lastepoch = -1) =>
        \A st \in Shuffles(cfg.s0, cfg.i0, cfg.r0),
           c \in InitialCountsOf[NAgents][cfg.nvertices] :
            st = status /\ BuildParticles(c, cfg.nvertices) = particles

\* C17: step_mobility returns, and leaves the list of every vertex without
\* neighbours as it was.
C17_IsolatedVertexKeepsOccupants ==
    [][pc = "mobility" =>
          /\ step_mobility(g, particles) # {}
          /\ \A v \in Vertices :
                g.neighbors[v] = <<>> =>
                    /\ particles'[v] = particles[v]
                    /\ \A Q \in step_mobility(g, particles) : Q[v] = particles[v]]_vars

\* step_mobility has run on a vertex without neighbours that holds agents
C17_Witness ==
    /\ pc = "transmission"
    /\ \E v \in Vertices : g.neighbors[v] = <<>> /\ Len(particles[v]) >= 2

\* C18: when all neighbours of v have gradient 0, the k-th of the n neighbours
\* is the one chosen exactly for the draws r with (k-1)/n < r <= k/n (and
\* r = 0 for the first): intervals of width 1/n, none empty.
C18_UniformFallback ==
    \A v \in 0..(g.vcount - 1) :
        LET neighids == g.neighbors[v]
            n == Len(neighids)
            Chosen(k) == {d \in RandVals :
                            fast_random_choice(neighids, NeighbourWeights(g, v), d) = neighids[k]}
        IN  (n > 0 /\ \A k \in 1..n : g.gradient[neighids[k]] = 0) =>
                \A k \in 1..n :
                    /\ Chosen(k) = {d \in RandVals :
                                      \/ (k - 1) * RandSteps < d * n /\ d * n <= k * RandSteps
                                      \/ k = 1 /\ d = 0}
                    /\ Chosen(k) # {}

\* on a graph whose gradients are all 0 an agent has moved in the first step
C18_Witness ==
    /\ pc = "transmission"
    /\ ep = 0
    /\ \A v \in Vertices : g.gradient[v] = 0
    /\ \E v \in Vertices : Len(g.neighbors[v]) >= 2
    /\ \E v \in Vertices : nparticles[v] >= 0 /\ Len(particles[v]) > nparticles[v]

\* C19: the per-vertex counts drawn by the initialization sum to N.
C19_CountsSumToN ==
    SumTo(nparticles, cfg.nvertices) = NAgents

\* an initialization whose correction took a count below zero
C19_Witness ==
    /\ pc = "mobility"
    /\ lastepoch = -1
    /\ \E v \in Vertices : nparticles[v] < 0

\* C20: the initial status array holds s0 susceptible, i0 infected and r0
\* recovered agents.
C20_StatusCounts ==
    lastepoch = -1 =>
        /\ Cardinality(Having(status, SUSCEPTIBLE)) = cfg.s0
        /\ Cardinality(Having(status, INFECTED)) = cfg.i0
        /\ Cardinality(Having(status, RECOVERED)) = cfg.r0

\* an initial array that is not in the order S, I, R in which it was filled
C20_Witness ==
    /\ pc = "mobility"
    /\ lastepoch = -1
    /\ cfg.s0 > 0
    /\ status[0] # SUSCEPTIBLE

\* C21: the cumulative transmission counter of every vertex never decreases:
\* its value after an epoch is at least its value after the epoch before
C21_CounterMonotonic ==
    [][\A v \in DOMAIN ntransmissions :
          v \in DOMAIN ntransmissions' /\ ntransmissions'[v] >= ntransmissions[v]]_vars

\* a second epoch has been aggregated on top of a counter that the first
\* epoch raised
C21_Witness ==
    /\ pc = "export" /\ ep = 1
    /\ \E v \in Vertices : ntransmissions[v] >= 1

\* C22: in every epoch step_mobility is complete before step_transmission
\* starts, step_transmission is complete before the row of the epoch is
\* computed, the stop condition is decided only with that row, and the counts
\* of susceptible and infected occupants that bound the new infections and
\* recoveries of a vertex are those of the status array on entry of
\* step_transmission
C22_EpochOrdering ==
    [][/\ pc = "mobility" => pc' \in {"transmission", "error"} /\ status' = status
       /\ pc = "transmission" =>
             /\ pc' \in {"aggregate", "error"}
             /\ particles' = particles
             /\ statuses_fixed' = status
             /\ pc' = "aggregate" =>
                   \A v \in 0..(g.vcount - 1) :
                      LET statuses == OccupantStatuses(status, particles[v])
                      IN  /\ newtransmissions'[v] <= Count(statuses, SUSCEPTIBLE)
                          /\ newrecovered'[v] <= Count(statuses, INFECTED)
       /\ pc = "aggregate" =>
             /\ pc' \in {"mobility", "export", "error"}
             /\ status' = status /\ particles' = particles
             /\ pc' # "error" =>
                   statuscountsum'[ep] =
                       compute_statuses_sums(status, particles, cfg.nvertices)
             /\ pc' = "mobility" => ep' = ep + 1
       /\ pc' = "export" => pc = "aggregate"]_vars

\* a vertex processed after one whose draws changed the status array, in a
\* second epoch
C22_Witness ==
    /\ pc = "aggregate" /\ ep = 1
    /\ \E v, w \in Vertices :
          v < w /\ newtransmissions[v] + newrecovered[v] > 0 /\ Len(particles[w]) > 0

\* the argument generate_graph passes to the generator is in range: the
\* Erdos-Renyi probability at most 1, the neighbour count m of Barabasi-Albert
\* and Watts-Strogatz at least 1
ArgumentInRange ==
    /\ cfg.topologymodel = "er" => g.arg <= cfg.nvertices
    /\ cfg.topologymodel \in {"ba", "ws"} => g.arg >= 1

\* C23: for every mean degree and vertex count, the Erdos-Renyi edge
\* probability passed to the generator is at most 1 and the neighbour count m
\* passed to the Barabasi-Albert and Watts-Strogatz generators is at least 1
C23_ClampedForEveryDegree == cfg.avgdegree \in AvgDegrees => ArgumentInRange

\* C24: experiments run by one invocation of main share no mutable state:
\* every experiment starts from counters, rows and lists of its own, and the
\* random number generator it draws from is drawn from by no other experiment
C24_ExperimentsIsolated ==
    /\ Cardinality(rngusers) <= 1
    /\ (pc = "mobility" /\ lastepoch = -1) =>
          /\ \A v \in Vertices : ntransmissions[v] = 0
          /\ \A t \in 0..(MAXITERS - 1) : nparticlesstds[t] = 0
          /\ \A t \in 1..(MAXITERS - 1) : statuscountsum[t] = ZeroRow
          /\ summary = <<>>

\* C25: with a fixed epoch budget nepochs = b >= 0 the loop executes exactly
\* b epochs, whatever the number of infected agents, then stops normally and
\* exports b rows
C25_FixedBudget ==
    cfg.nepochs >= 0 =>
        /\ pc # "error"
        /\ lastepoch + 1 <= cfg.nepochs
        /\ pc \in {"export", "done"} => lastepoch + 1 = cfg.nepochs
        /\ pc = "done" => Len(summary) = cfg.nepochs

\* C26: with nepochs = -1 a run that stops has as its last exported row the
\* first one without an infected agent: the last row has I = 0 and every row
\* before it has I > 0
C26_StopsAtFirstInfectionFreeRow ==
    (cfg.nepochs = -1 /\ pc = "done") =>
        /\ Len(summary) >= 1
        /\ summary[Len(summary)][INFECTED] = 0
        /\ \A t \in 1..(Len(summary) - 1) : summary[t][INFECTED] > 0

\* a run that stopped at the end of its second epoch
C26_Witness ==
    /\ cfg.nepochs = -1 /\ pc = "done"
    /\ Len(summary) = 2
    /\ summary[1][INFECTED] > 0

\* C27: step_mobility changes nothing but the membership lists: the status of
\* every agent, the transmission counters and the graph with its adjacency and
\* gradient are unchanged, and every agent id occurs in the lists as many
\* times after the step as before it
C27_MobilityFrame ==
    [][pc = "mobility" =>
          /\ status' = status
          /\ ntransmissions' = ntransmissions
          /\ g' = g
          /\ DOMAIN particles' = DOMAIN particles
          /\ \A id \in (-2 * MaxAgents)..(2 * MaxAgents) :
                Occurrences(particles', id) = Occurrences(particles, id)]_vars

\* step_mobility has taken an agent out of the list of its vertex
C27_Witness ==
    /\ pc = "transmission" /\ ep = 0
    /\ \E v \in Vertices : nparticles[v] >= 1 /\ Len(particles[v]) < nparticles[v]

\* C28: the rounding correction leaves every per-vertex count at 0 or more,
\* so that the membership lists built from consecutive id ranges are pairwise
\* disjoint and hold only ids of 0..N-1
C28_CountsStayNonNegative ==
    (pc = "mobility" /\ lastepoch = -1) =>
        /\ \A v \in Vertices : nparticles[v] >= 0
        /\ \A v \in Vertices : Len(particles[v]) = nparticles[v]
        /\ IsPartition(particles, NAgents)

\* C29: the generated graph has nvertices vertices, as many as there are
\* membership lists and transmission counters, so that every membership list
\* is the list of a vertex of the graph
C29_GraphHasNVertices ==
    ~g.raised =>
        /\ g.vcount = cfg.nvertices
        /\ Cardinality(DOMAIN particles) = g.vcount
        /\ Cardinality(DOMAIN ntransmissions) = g.vcount

====
